---- MODULE Spec2Model ----
(***************************************************************************)
(* The write path of the index: the two-phase commit handle of             *)
(* src/indexer/prepared_commit.rs, the timestamped operations of           *)
(* src/indexer/operation.rs and the Document of src/schema/document.rs.    *)
(*                                                                         *)
(* The IndexWriter and its segment updater are collaborators whose code is *)
(* outside these files.  They are modelled from their described contract:  *)
(* an opstamp counter, a pipeline of pending operations, a commit-request  *)
(* queue drained by one background worker, and a rollback.                 *)
(***************************************************************************)
EXTENDS Naturals, Sequences, FiniteSets

\* ---------------------------------------------------------------- bounds
MaxOpstamp == 4
MaxHandles == 2
MaxLen == 4
NumFields == 3

Payloads == {"p", "q"}
Handles == 1..MaxHandles

VARIABLES
    stamper,            \* writer: the next opstamp to hand out
    pending,            \* writer: stamped operations not yet durable
    alive,              \* scheduler: TRUE while it accepts requests
    queue,              \* scheduler: accepted commit requests, oldest first
    durable,            \* scheduler: operations made durable by a commit
    record,             \* scheduler: the last commit request carried out
    accepted_opstamp,   \* scheduler: sequence point of the last accepted commit
    prepared,           \* the PreparedCommit handles
    hist,               \* per handle: the calls made on it (capped counts)
    discarded,          \* operations dropped by a rollback
    doc,                \* a Document (its field_values)
    orig_doc,           \* the Document before the first prepare_for_store
    prev_doc,           \* the Document before the last prepare_for_store
    prep_calls,         \* prepare_for_store calls since the last add
    groups,             \* the last result of get_sorted_field_values
    got                 \* TRUE when groups was computed from doc

commit_vars == <<stamper, pending, alive, queue, durable, record,
                 accepted_opstamp, prepared, hist, discarded>>
doc_vars == <<doc, orig_doc, prev_doc, prep_calls, groups, got>>
vars == <<stamper, pending, alive, queue, durable, record,
          accepted_opstamp, prepared, hist, discarded,
          doc, orig_doc, prev_doc, prep_calls, groups, got>>

Min(a, b) == IF a <= b THEN a ELSE b

\* ------------------------------------------------- Option and Result
None == <<>>
Some(s) == <<s>>

NoResult == <<>>
Ok(v) == <<"Ok", v>>
Err(e) == <<"Err", e>>

\* ------------------------------------------- src/indexer/operation.rs
AddOperation(o) == [kind |-> "Add", opstamp |-> o]
DeleteOperation(o) == [kind |-> "Delete", opstamp |-> o]
UserOperation == {"Add", "Delete"}

Stamped(kind, o) == IF kind = "Add" THEN AddOperation(o) ELSE DeleteOperation(o)

\* -------------------------------------- src/indexer/prepared_commit.rs
\* The struct: a handle not yet created is "Unborn"; `commit(self)` and
\* `abort(self)` take the handle by value, so a handle that entered either
\* is no longer "Open".
PreparedCommit(st, o, p, a, r) ==
    [state |-> st, opstamp |-> o, payload |-> p, ack |-> a, result |-> r]

Unborn == PreparedCommit("Unborn", 0, None, "none", NoResult)

\* Variant: the handle holds the writer without borrowing it exclusively.
Borrowed_shared == FALSE

\* `index_writer: &'a mut IndexWriter<D>`: the writer is exclusively borrowed
\* from `new` until `commit` or `abort` has returned.
Borrowed == \E h \in Handles : prepared[h].state \in {"Open", "Committing"}

\* PreparedCommit::new
new(o) == PreparedCommit("Open", o, None, "none", NoResult)

\* PreparedCommit::opstamp
opstamp(h) == prepared[h].opstamp

NextHandle == Cardinality({h \in Handles : prepared[h].state # "Unborn"}) + 1

\* ------------------------------------------ writer and scheduler
\* allocate_next_opstamp
stamp == stamper

\* schedule_commit: the request is accepted into the queue while the
\* scheduler is alive, and refused once it has been shut down.
schedule_commit_ack == IF alive THEN "accepted" ELSE "rejected"

CommitRequest(h, o, p) == [h |-> h, opstamp |-> o, payload |-> p]

\* rollback: back to the last accepted commit; its opstamp is returned.
rollback_kept == {op \in pending : op.opstamp <= accepted_opstamp}
rollback_result == Ok(accepted_opstamp)

NoRecord == CommitRequest(0, 0, None)

\* ---------------------------------------------------------------- actions
\* IndexWriter::add_document / delete_term: needs the writer, so it is
\* impossible while a PreparedCommit borrows it.
Submit(kind) ==
    /\ ~Borrowed
    /\ stamper <= MaxOpstamp
    /\ pending' = pending \cup {Stamped(kind, stamp)}
    /\ stamper' = stamper + 1
    /\ UNCHANGED <<alive, queue, durable, record, accepted_opstamp,
                   prepared, hist, discarded>>
    /\ UNCHANGED doc_vars

\* IndexWriter::prepare_commit: allocates the sequence point and calls new.
Open ==
    /\ ~Borrowed
    /\ stamper <= MaxOpstamp
    /\ NextHandle \in Handles
    /\ prepared' = [prepared EXCEPT ![NextHandle] = new(stamp)]
    /\ stamper' = stamper + 1
    /\ UNCHANGED <<pending, alive, queue, durable, record, accepted_opstamp,
                   hist, discarded>>
    /\ UNCHANGED doc_vars

\* Variant: a payload already set is kept.
set_payload_keeps_first(h, p) ==
    /\ prepared[h].state = "Open"
    /\ prepared' = [prepared EXCEPT ![h].payload =
                        IF @ = None THEN Some(p) ELSE @]
    /\ hist' = [hist EXCEPT ![h].calls = Min(@ + 1, 2), ![h].last = p]
    /\ UNCHANGED <<stamper, pending, alive, queue, durable, record,
                   accepted_opstamp, discarded>>
    /\ UNCHANGED doc_vars

\* PreparedCommit::set_payload
set_payload(h, p) ==
    /\ prepared[h].state = "Open"
    /\ prepared' = [prepared EXCEPT ![h].payload = Some(p)]
    /\ hist' = [hist EXCEPT ![h].calls = Min(@ + 1, 2), ![h].last = p]
    /\ UNCHANGED <<stamper, pending, alive, queue, durable, record,
                   accepted_opstamp, discarded>>
    /\ UNCHANGED doc_vars

\* Variant: abort returns without calling rollback.
abort_without_rollback(h) ==
    /\ prepared[h].state = "Open"
    /\ prepared' = [prepared EXCEPT ![h].state = "Aborted",
                                    ![h].result = rollback_result]
    /\ hist' = [hist EXCEPT ![h].rollbacks = Min(@ + 1, 2)]
    /\ UNCHANGED <<stamper, pending, discarded, alive, queue, durable, record,
                   accepted_opstamp>>
    /\ UNCHANGED doc_vars

\* Variant: abort returns the handle's own opstamp, as commit does.
abort_returns_own(h) ==
    /\ prepared[h].state = "Open"
    /\ pending' = rollback_kept
    /\ discarded' = discarded \cup (pending \ rollback_kept)
    /\ prepared' = [prepared EXCEPT ![h].state = "Aborted",
                                    ![h].result = Ok(opstamp(h))]
    /\ hist' = [hist EXCEPT ![h].rollbacks = Min(@ + 1, 2)]
    /\ UNCHANGED <<stamper, alive, queue, durable, record, accepted_opstamp>>
    /\ UNCHANGED doc_vars

\* Variant: abort takes `&mut self`, so the handle stays usable.
abort_by_reference(h) ==
    /\ prepared[h].state = "Open"
    /\ pending' = rollback_kept
    /\ discarded' = discarded \cup (pending \ rollback_kept)
    /\ prepared' = [prepared EXCEPT ![h].result = rollback_result]
    /\ hist' = [hist EXCEPT ![h].rollbacks = Min(@ + 1, 2)]
    /\ UNCHANGED <<stamper, alive, queue, durable, record, accepted_opstamp>>
    /\ UNCHANGED doc_vars

\* PreparedCommit::abort
abort(h) ==
    /\ prepared[h].state = "Open"
    /\ pending' = rollback_kept
    /\ discarded' = discarded \cup (pending \ rollback_kept)
    /\ prepared' = [prepared EXCEPT ![h].state = "Aborted",
                                    ![h].result = rollback_result]
    /\ hist' = [hist EXCEPT ![h].rollbacks = Min(@ + 1, 2)]
    /\ UNCHANGED <<stamper, alive, queue, durable, record, accepted_opstamp>>
    /\ UNCHANGED doc_vars

\* Variant: the request carries the opstamp after the sequence point.
commit_next_opstamp(h) ==
    /\ prepared[h].state = "Open"
    /\ prepared' = [prepared EXCEPT ![h].state = "Committing",
                                    ![h].ack = schedule_commit_ack]
    /\ IF alive
         THEN /\ queue' = Append(queue, CommitRequest(h, opstamp(h) + 1, prepared[h].payload))
              /\ accepted_opstamp' = opstamp(h)
         ELSE UNCHANGED <<queue, accepted_opstamp>>
    /\ hist' = [hist EXCEPT ![h].requests = Min(@ + 1, 2)]
    /\ UNCHANGED <<stamper, pending, alive, durable, record, discarded>>
    /\ UNCHANGED doc_vars

\* PreparedCommit::commit, up to the point where block_on waits: the handle
\* is consumed and schedule_commit(self.opstamp, self.payload) is called.  The
\* IF is schedule_commit's side: an accepted request joins the queue and
\* becomes the last accepted commit; a refused one leaves no trace.
commit(h) ==
    /\ prepared[h].state = "Open"
    /\ prepared' = [prepared EXCEPT ![h].state = "Committing",
                                    ![h].ack = schedule_commit_ack]
    /\ IF alive
         THEN /\ queue' = Append(queue, CommitRequest(h, opstamp(h), prepared[h].payload))
              /\ accepted_opstamp' = opstamp(h)
         ELSE UNCHANGED <<queue, accepted_opstamp>>
    /\ hist' = [hist EXCEPT ![h].requests = Min(@ + 1, 2)]
    /\ UNCHANGED <<stamper, pending, alive, durable, record, discarded>>
    /\ UNCHANGED doc_vars

\* Variant: the future resolves only when the scheduled work is finished.
commit_return_on_completion(h) ==
    /\ prepared[h].state = "Committing"
    /\ prepared[h].ack # "none"
    /\ \A i \in 1..Len(queue) : queue[i].h # h
    /\ prepared' = [prepared EXCEPT ![h].state = "Committed",
                                    ![h].result = Ok(opstamp(h))]
    /\ UNCHANGED <<stamper, pending, alive, queue, durable, record,
                   accepted_opstamp, hist, discarded>>
    /\ UNCHANGED doc_vars

\* PreparedCommit::commit, from the resolution of the future to the return:
\* `let _ =` drops the outcome of the handoff, then Ok(self.opstamp).
commit_return(h) ==
    /\ prepared[h].state = "Committing"
    /\ prepared[h].ack # "none"
    /\ prepared' = [prepared EXCEPT ![h].state = "Committed",
                                    ![h].result = Ok(opstamp(h))]
    /\ UNCHANGED <<stamper, pending, alive, queue, durable, record,
                   accepted_opstamp, hist, discarded>>
    /\ UNCHANGED doc_vars

\* The background worker carries out the oldest accepted request.
ProcessCommit ==
    /\ queue # <<>>
    /\ LET req == Head(queue)
           covered == {op \in pending : op.opstamp <= req.opstamp}
       IN  /\ durable' = durable \cup covered
           /\ pending' = pending \ covered
           /\ record' = req
    /\ queue' = Tail(queue)
    /\ UNCHANGED <<stamper, alive, accepted_opstamp, prepared, hist, discarded>>
    /\ UNCHANGED doc_vars

\* The scheduler is shut down.
Shutdown ==
    /\ alive
    /\ alive' = FALSE
    /\ UNCHANGED <<stamper, pending, queue, durable, record, accepted_opstamp,
                   prepared, hist, discarded>>
    /\ UNCHANGED doc_vars

CommitInit ==
    /\ stamper = 1
    /\ pending = {}
    /\ alive = TRUE
    /\ queue = <<>>
    /\ durable = {}
    /\ record = NoRecord
    /\ accepted_opstamp = 0
    /\ prepared = [h \in Handles |-> Unborn]
    /\ hist = [h \in Handles |->
                 [calls |-> 0, last |-> "", requests |-> 0, rollbacks |-> 0]]
    /\ discarded = {}

\* Document::new
DocInit ==
    /\ doc = <<>>
    /\ orig_doc = <<>>
    /\ prev_doc = <<>>
    /\ prep_calls = 0
    /\ groups = <<>>
    /\ got = FALSE

Init == CommitInit /\ DocInit

Next ==
    \/ \E kind \in UserOperation : Submit(kind)
    \/ Open
    \/ \E h \in Handles, p \in Payloads : set_payload(h, p)
    \/ \E h \in Handles : abort(h)
    \/ \E h \in Handles : commit(h)
    \/ \E h \in Handles : commit_return(h)
    \/ ProcessCommit
    \/ Shutdown

Spec == Init /\ [][Next]_vars

\* block_on returns once the future is resolved: the calling thread is
\* scheduled; nothing is assumed about the background worker.
FairSpec == Spec /\ \A h \in Handles : WF_vars(commit_return(h))

\* ------------------------------------------- src/schema/document.rs
Fields == 1..NumFields

Token(from, to, pos, text, plen) ==
    [offset_from |-> from, offset_to |-> to, position |-> pos,
     text |-> text, position_length |-> plen]
PreTokenizedString(text, tokens) == [text |-> text, tokens |-> tokens]

\* Value: the variants the Document code tells apart, and one other.
Str(text) == [tag |-> "Str", text |-> text, tokens |-> <<>>, num |-> 0]
PreTokStr(pts) == [tag |-> "PreTokStr", text |-> pts.text, tokens |-> pts.tokens, num |-> 0]
U64(n) == [tag |-> "U64", text |-> "", tokens |-> <<>>, num |-> n]

Values == {Str("title"),
           PreTokStr(PreTokenizedString("A", <<Token(0, 1, 0, "A", 1)>>)),
           U64(7)}

FieldValue(f, v) == [field |-> f, value |-> v]

\* Variant: the loop stops after the first pre-tokenized value.
RECURSIVE prepare_for_store_first_only(_)
prepare_for_store_first_only(d) ==
    IF d = <<>> THEN <<>>
    ELSE IF Head(d).value.tag = "PreTokStr"
         THEN <<FieldValue(Head(d).field, Str(Head(d).value.text))>> \o Tail(d)
         ELSE <<Head(d)>> \o prepare_for_store_first_only(Tail(d))

\* Document::prepare_for_store, on the field_values d
prepare_for_store(d) ==
    [i \in 1..Len(d) |->
        IF d[i].value.tag = "PreTokStr"
          THEN FieldValue(d[i].field, Str(d[i].value.text))
          ELSE d[i]]

\* slice::sort_by_key (a stable sort) on references into d, by field:
\* x goes after every element whose key is not greater.
RECURSIVE InsertByKey(_, _, _)
InsertByKey(d, s, x) ==
    IF s = <<>> THEN <<x>>
    ELSE IF d[x].field < d[Head(s)].field
         THEN <<x>> \o s
         ELSE <<Head(s)>> \o InsertByKey(d, Tail(s), x)

\* Variant: an unstable sort, equal keys end up reversed.
RECURSIVE sort_unstable_by_key(_, _)
sort_unstable_by_key(d, s) ==
    IF s = <<>> THEN <<>>
    ELSE InsertByKey(d, sort_unstable_by_key(d, Tail(s)), Head(s))

RECURSIVE sort_by_key(_, _)
sort_by_key(d, s) ==
    IF s = <<>> THEN <<>>
    ELSE InsertByKey(d, sort_by_key(d, SubSeq(s, 1, Len(s) - 1)), s[Len(s)])

Group(f, g) == [field |-> f, group |-> g]

\* The `for field_value in field_values_it` loop and the final push.
RECURSIVE group_loop(_, _, _, _, _)
group_loop(d, it, grouped, current_field, current_group) ==
    IF it = <<>>
      THEN Append(grouped, Group(current_field, current_group))
      ELSE IF d[Head(it)].field = current_field
             THEN group_loop(d, Tail(it), grouped, current_field,
                             Append(current_group, Head(it)))
             ELSE group_loop(d, Tail(it),
                             Append(grouped, Group(current_field, current_group)),
                             d[Head(it)].field, <<Head(it)>>)

\* Document::get_sorted_field_values; a `&FieldValue` is its index in d
get_sorted_field_values(d) ==
    LET field_values == sort_by_key(d, [i \in 1..Len(d) |-> i])
    IN  IF field_values = <<>>
          THEN <<>>
          ELSE group_loop(d, Tail(field_values), <<>>,
                          d[Head(field_values)].field, <<Head(field_values)>>)

\* Document::add
add(field_value) ==
    /\ Len(doc) < MaxLen
    /\ doc' = Append(doc, field_value)
    /\ orig_doc' = <<>>
    /\ prev_doc' = <<>>
    /\ prep_calls' = 0
    /\ groups' = <<>>
    /\ got' = FALSE
    /\ UNCHANGED commit_vars

\* a call of Document::prepare_for_store
PrepareForStore ==
    /\ prep_calls < 2
    /\ doc' = prepare_for_store(doc)
    /\ orig_doc' = IF prep_calls = 0 THEN doc ELSE orig_doc
    /\ prev_doc' = doc
    /\ prep_calls' = prep_calls + 1
    /\ groups' = <<>>
    /\ got' = FALSE
    /\ UNCHANGED commit_vars

\* a call of Document::get_sorted_field_values
GetSortedFieldValues ==
    /\ ~got
    /\ groups' = get_sorted_field_values(doc)
    /\ got' = TRUE
    /\ UNCHANGED <<doc, orig_doc, prev_doc, prep_calls>>
    /\ UNCHANGED commit_vars

DocNext ==
    \/ \E f \in Fields, v \in Values : add(FieldValue(f, v))
    \/ PrepareForStore
    \/ GetSortedFieldValues

DocSpec == Init /\ [][DocNext]_vars

\* ================================================================ claims
OpenHandles == {h \in Handles : prepared[h].state = "Open"}
Finalized == {"Committing", "Committed", "Aborted"}
Submitted == pending \cup durable \cup discarded
Requests == {queue[i] : i \in 1..Len(queue)} \cup (IF record.h = 0 THEN {} ELSE {record})
CommittedState == {op \in pending \cup durable : op.opstamp <= accepted_opstamp}
AbortStep(h) == prepared[h].state = "Open" /\ prepared'[h].state = "Aborted"

\* C1: a commit whose request the scheduler refused fails with CommitRejected
\* and returns no successful opstamp.
C1_RejectedCommitFails ==
    \A h \in Handles :
        (prepared[h].state = "Committed" /\ prepared[h].ack = "rejected")
            => prepared[h].result = Err("CommitRejected")

C3_ExclusiveWriter ==
    /\ [](Cardinality(OpenHandles) <= 1)
    /\ [][\A h \in OpenHandles :
            \/ prepared'[h].state \in {"Committing", "Aborted"}
            \/ /\ prepared'[h].state = "Open"
               /\ stamper' = stamper
               /\ pending' \cup durable' \cup discarded' = Submitted
               /\ discarded' = discarded
               /\ accepted_opstamp' = accepted_opstamp
               /\ \A g \in Handles \ {h} : prepared'[g] = prepared[g]]_vars

C3_Witness ==
    /\ prepared[1].state = "Open"
    /\ prepared[1].payload # None
    /\ pending # {}
    /\ stamper <= MaxOpstamp
    /\ NextHandle \in Handles

\* C4: a commit that is waiting for the scheduler's answer always returns,
\* whether or not the background worker ever carries out the request.
C4_ReturnsOnAcknowledgement ==
    \A h \in Handles :
        (prepared[h].state = "Committing") ~> (prepared[h].state = "Committed")

C4_Witness ==
    \E h \in Handles :
        /\ prepared[h].state = "Committed"
        /\ prepared[h].ack = "accepted"
        /\ \E i \in 1..Len(queue) : queue[i].h = h
        /\ \E op \in pending : op.opstamp <= opstamp(h)

\* C5: an abort leaves the committed state (operations at or below the last
\* accepted commit) and the scheduler as they are, sends no commit request,
\* and afterwards no operation submitted after that commit is left.
C5_AbortRollsBack ==
    [][\A h \in Handles : AbortStep(h) =>
          /\ CommittedState' = CommittedState
          /\ pending' \cup durable' = CommittedState
          /\ durable' = durable
          /\ queue' = queue
          /\ record' = record
          /\ accepted_opstamp' = accepted_opstamp
          /\ hist'[h].requests = 0]_vars

C5_Witness ==
    /\ prepared[1].state = "Committed"
    /\ prepared[1].ack = "accepted"
    /\ prepared[2].state = "Aborted"
    /\ CommittedState # {}
    /\ \E op \in discarded : op.opstamp > accepted_opstamp

C7_FinalizedOnce ==
    /\ [](\A h \in Handles : hist[h].requests + hist[h].rollbacks <= 1)
    /\ [][\A h \in Handles :
            /\ prepared[h].state \in Finalized =>
                 /\ prepared'[h].state \in Finalized
                 /\ prepared'[h].payload = prepared[h].payload
                 /\ prepared'[h].opstamp = prepared[h].opstamp
                 /\ hist'[h] = hist[h]
            /\ prepared[h].state = "Aborted" => prepared'[h] = prepared[h]
            /\ prepared[h].state = "Committed" => prepared'[h] = prepared[h]
            /\ prepared[h].state = "Committing" =>
                 prepared'[h].state \in {"Committing", "Committed"}]_vars

C7_Witness ==
    /\ prepared[1].state = "Aborted"
    /\ prepared[2].state = "Committed"
    /\ prepared[2].payload # None

\* C8: every commit request carries its handle's sequence point and the
\* argument of the last set_payload call on it (no payload when there was no
\* call), and a handle sends at most one request.
C8_RequestCarriesLastPayload ==
    /\ \A r \in Requests :
          /\ r.opstamp = opstamp(r.h)
          /\ r.payload = IF hist[r.h].calls = 0 THEN None ELSE Some(hist[r.h].last)
    /\ \A h \in Handles : hist[h].requests <= 1
    /\ \A i, j \in 1..Len(queue) : queue[i].h = queue[j].h => i = j

C8_Witness ==
    /\ \E r \in Requests : hist[r.h].calls = 2 /\ r.payload = Some("q")
    /\ \E r \in Requests : hist[r.h].calls = 0 /\ r.payload = None
\* prepare_for_store took `before` to `after`
Narrowed(before, after) ==
    /\ Len(after) = Len(before)
    /\ \A i \in 1..Len(before) :
          /\ after[i].field = before[i].field
          /\ before[i].value.tag = "PreTokStr" =>
                after[i].value = Str(before[i].value.text)
          /\ before[i].value.tag # "PreTokStr" => after[i] = before[i]
HasPreTok(d) == \E i \in 1..Len(d) : d[i].value.tag = "PreTokStr"

\* C9: prepare_for_store keeps the number, fields and order of the pairs,
\* turns each pre-tokenized value into the string of the same text, leaves the
\* others alone, changes nothing on a second call, and changes nothing on a
\* Document without pre-tokenized values.
C9_PrepareForStoreNarrowsOnce ==
    /\ prep_calls >= 1 =>
          /\ Narrowed(prev_doc, doc)
          /\ Narrowed(orig_doc, doc)
          /\ ~HasPreTok(doc)
          /\ ~HasPreTok(prev_doc) => doc = prev_doc
    /\ prep_calls = 2 => doc = prev_doc

C9_Witness ==
    /\ prep_calls = 2
    /\ Len(orig_doc) >= 3
    /\ HasPreTok(orig_doc)
    /\ \E i \in 1..Len(orig_doc) : orig_doc[i].value.tag = "U64"
    /\ orig_doc[1].value.tag = "PreTokStr" /\ orig_doc[2].value.tag = "PreTokStr"

IndicesOf(d, f) == {i \in 1..Len(d) : d[i].field = f}

\* C10: the groups are in strictly increasing field order, one per field
\* present; each holds exactly the pairs of its field in their original
\* order; every pair is in exactly one place; no pair, no group; and the call
\* leaves the Document as it is.
C10_SortedGroups ==
    /\ [](got =>
          /\ \A k \in 1..(Len(groups) - 1) : groups[k].field < groups[k + 1].field
          /\ {groups[k].field : k \in 1..Len(groups)} = {doc[i].field : i \in 1..Len(doc)}
          /\ \A k \in 1..Len(groups) :
                LET g == groups[k].group
                IN  /\ {g[j] : j \in 1..Len(g)} = IndicesOf(doc, groups[k].field)
                    /\ \A j \in 1..(Len(g) - 1) : g[j] < g[j + 1]
          /\ \A i \in 1..Len(doc) :
                Cardinality({kj \in {<<k, j>> : k \in 1..Len(groups), j \in 1..MaxLen} :
                                /\ kj[2] <= Len(groups[kj[1]].group)
                                /\ groups[kj[1]].group[kj[2]] = i}) = 1
          /\ doc = <<>> => groups = <<>>)
    /\ [][(~got /\ got') => doc' = doc]_vars

C10_Witness ==
    /\ got
    /\ Len(doc) = 4
    /\ doc[1].field = 3 /\ doc[2].field = 1 /\ doc[3].field = 3 /\ doc[4].field = 2
    /\ Len(groups) = 3
    /\ groups[3].group = <<1, 3>>
====
